---- MODULE Spec2Model ----
(***************************************************************************)
(* Model of the two pallets of the repository:                             *)
(*   src/src/staking.rs     StakingPallet    (free / staked balances)      *)
(*   src/src/governance.rs  GovernancePallet (proposals, votes, next id)   *)
(* Each public method is one action.  A call's arguments and its result    *)
(* are recorded in st_call / gov_call so that properties can speak about   *)
(* what a call returned.                                                   *)
(***************************************************************************)
EXTENDS Integers, FiniteSets, TLC

(* ---------------- bounds of the model ---------------- *)

\* Largest value of T::Balance (u64 in the tests' Runtime), scaled down.
BalanceMax == 3

\* Largest value of u32 (next_proposal_id, yes_votes, no_votes), scaled down.
U32Max == 1

\* Account identifiers used as `who`, `voter` and `creator`.
Accounts == {1, 2}

\* Proposal ids callers pass to vote and finalize_proposal.
ProposalIds == {0, 1}

\* Proposal descriptions handed to create_proposal.
Descriptions == {"d"}

(* ---------------- state ---------------- *)

VARIABLES
    free_balances,     \* HashMap<AccountId, Balance>: function on the stored keys
    staked_balances,   \* HashMap<AccountId, Balance>
    st_call,           \* the last StakingPallet call and what it returned
    proposals,         \* HashMap<u32, Proposal>
    votes,             \* HashMap<(AccountId, u32), bool>
    next_proposal_id,  \* u32
    overflow_checks,   \* build profile: TRUE = u32 `+=` panics on overflow, FALSE = wraps
    created,           \* number of create_proposal calls made
    gov_call           \* the last GovernancePallet call and what it returned

staking_vars == <<free_balances, staked_balances, st_call>>
gov_vars == <<proposals, votes, next_proposal_id, overflow_checks, created, gov_call>>
vars == <<free_balances, staked_balances, st_call,
          proposals, votes, next_proposal_id, overflow_checks, created, gov_call>>

(* ---------------- the balance type ---------------- *)

Balance == 0..BalanceMax

\* Option::None of a checked operation.
None == -1

\* T::Balance::zero()
Zero == 0

\* wrapping_sub in place of checked_sub (mutant): the result wraps around.
checked_sub_wrapping(a, b) == (a - b) % (BalanceMax + 1)

\* checked_sub refusing to empty a pool (mutant): None also when the result is 0.
checked_sub_strict(a, b) == IF a - b <= 0 THEN None ELSE a - b

\* CheckedSub on an unsigned balance: None when the result would be below 0.
checked_sub(a, b) == IF a - b < 0 THEN None ELSE a - b

\* saturating_add in place of checked_add (mutant): the result is clamped.
checked_add_saturating(a, b) == IF a + b > BalanceMax THEN BalanceMax ELSE a + b

\* wrapping_add in place of checked_add (mutant): the result wraps around.
checked_add_wrapping(a, b) == (a + b) % (BalanceMax + 1)

\* CheckedAdd: None when the result would exceed the type's maximum.
checked_add(a, b) == IF a + b > BalanceMax THEN None ELSE a + b

\* HashMap::new()
EmptyMap == [k \in {} |-> 0]

\* HashMap::insert(k, v): the entry of k is created or overwritten.
insert(m, k, v) == [x \in DOMAIN m \cup {k} |-> IF x = k THEN v ELSE m[x]]

\* map.get(&who).copied().unwrap_or(T::Balance::zero())
get_free_balance(who) ==
    IF who \in DOMAIN free_balances THEN free_balances[who] ELSE Zero

\* get_staked_balance falling back to the free balance for an absent entry (mutant).
get_staked_balance_or_free(who) ==
    IF who \in DOMAIN staked_balances THEN staked_balances[who] ELSE get_free_balance(who)

get_staked_balance(who) ==
    IF who \in DOMAIN staked_balances THEN staked_balances[who] ELSE Zero

(* ---------------- StakingPallet ---------------- *)

\* The call being made undoes the call before it: that call succeeded, and this
\* one is the opposite transfer for the same account and amount.
Undoes(op, who, amount) ==
    /\ st_call.result = "Ok" /\ st_call.who = who /\ st_call.amount = amount
    /\ \/ (st_call.op = "stake" /\ op = "unstake")
       \/ (st_call.op = "unstake" /\ op = "stake")

\* A call of the pallet: its arguments, what it returned (`result`, and `value`
\* for a query), the two balances of `who` when it was made (the locals
\* free_balance and staked_balance), and whether it undoes the call before it.
StRecord(op, who, amount, result, value) ==
    [op |-> op, who |-> who, amount |-> amount, result |-> result, value |-> value,
     free_before |-> get_free_balance(who),
     staked_before |-> get_staked_balance(who),
     undoes |-> Undoes(op, who, amount)]

StCall(op, who, amount, result) == StRecord(op, who, amount, result, Zero)

StakingNew ==
    /\ free_balances = EmptyMap
    /\ staked_balances = EmptyMap
    /\ st_call = [op |-> "new", who |-> 0, amount |-> 0, result |-> "Ok", value |-> 0,
                  free_before |-> 0, staked_before |-> 0, undoes |-> FALSE]

\* set_balance that also resets the staked balance (mutant).
set_balance_resets_stake(who, amount) ==
    /\ free_balances' = insert(free_balances, who, amount)
    /\ staked_balances' = insert(staked_balances, who, Zero)
    /\ st_call' = StCall("set_balance", who, amount, "Ok")
    /\ UNCHANGED gov_vars

set_balance(who, amount) ==
    /\ free_balances' = insert(free_balances, who, amount)
    /\ st_call' = StCall("set_balance", who, amount, "Ok")
    /\ UNCHANGED <<staked_balances, gov_vars>>

\* stake writing the free balance before the addition is checked (mutant).
stake_partial(who, amount) ==
    LET free_balance == get_free_balance(who)
        staked_balance == get_staked_balance(who)
        new_free == checked_sub(free_balance, amount)
        new_staked == checked_add(staked_balance, amount)
    IN  /\ IF new_free = None
           THEN /\ st_call' = StCall("stake", who, amount, "Insufficient balance")
                /\ UNCHANGED <<free_balances, staked_balances>>
           ELSE IF new_staked = None
           THEN /\ free_balances' = insert(free_balances, who, new_free)
                /\ st_call' = StCall("stake", who, amount, "Overflow")
                /\ UNCHANGED staked_balances
           ELSE /\ free_balances' = insert(free_balances, who, new_free)
                /\ staked_balances' = insert(staked_balances, who, new_staked)
                /\ st_call' = StCall("stake", who, amount, "Ok")
        /\ UNCHANGED gov_vars

stake(who, amount) ==
    LET free_balance == get_free_balance(who)
        staked_balance == get_staked_balance(who)
        new_free == checked_sub(free_balance, amount)
        new_staked == checked_add(staked_balance, amount)
    IN  /\ IF new_free = None
           THEN /\ st_call' = StCall("stake", who, amount, "Insufficient balance")
                /\ UNCHANGED <<free_balances, staked_balances>>
           ELSE IF new_staked = None
           THEN /\ st_call' = StCall("stake", who, amount, "Overflow")
                /\ UNCHANGED <<free_balances, staked_balances>>
           ELSE /\ free_balances' = insert(free_balances, who, new_free)
                /\ staked_balances' = insert(staked_balances, who, new_staked)
                /\ st_call' = StCall("stake", who, amount, "Ok")
        /\ UNCHANGED gov_vars

\* unstake adding the amount to the staked balance it read, not the free one (mutant).
unstake_wrong_pool(who, amount) ==
    LET staked_balance == get_staked_balance(who)
        free_balance == get_free_balance(who)
        new_staked == checked_sub(staked_balance, amount)
        new_free == checked_add(staked_balance, amount)
    IN  /\ IF new_staked = None
           THEN /\ st_call' = StCall("unstake", who, amount, "Insufficient staked balance")
                /\ UNCHANGED <<free_balances, staked_balances>>
           ELSE IF new_free = None
           THEN /\ st_call' = StCall("unstake", who, amount, "Overflow")
                /\ UNCHANGED <<free_balances, staked_balances>>
           ELSE /\ staked_balances' = insert(staked_balances, who, new_staked)
                /\ free_balances' = insert(free_balances, who, new_free)
                /\ st_call' = StCall("unstake", who, amount, "Ok")
        /\ UNCHANGED gov_vars

unstake(who, amount) ==
    LET staked_balance == get_staked_balance(who)
        free_balance == get_free_balance(who)
        new_staked == checked_sub(staked_balance, amount)
        new_free == checked_add(free_balance, amount)
    IN  /\ IF new_staked = None
           THEN /\ st_call' = StCall("unstake", who, amount, "Insufficient staked balance")
                /\ UNCHANGED <<free_balances, staked_balances>>
           ELSE IF new_free = None
           THEN /\ st_call' = StCall("unstake", who, amount, "Overflow")
                /\ UNCHANGED <<free_balances, staked_balances>>
           ELSE /\ staked_balances' = insert(staked_balances, who, new_staked)
                /\ free_balances' = insert(free_balances, who, new_free)
                /\ st_call' = StCall("unstake", who, amount, "Ok")
        /\ UNCHANGED gov_vars

\* The query get_free_balance(who), a &self method, as a call.
free_balance_query(who) ==
    /\ st_call' = StRecord("get_free_balance", who, 0, "Ok", get_free_balance(who))
    /\ UNCHANGED <<free_balances, staked_balances, gov_vars>>

\* The query get_staked_balance(who), a &self method, as a call.
staked_balance_query(who) ==
    /\ st_call' = StRecord("get_staked_balance", who, 0, "Ok", get_staked_balance(who))
    /\ UNCHANGED <<free_balances, staked_balances, gov_vars>>

SetBalance == \E who \in Accounts, amount \in Balance : set_balance(who, amount)
Stake == \E who \in Accounts, amount \in Balance : stake(who, amount)
Unstake == \E who \in Accounts, amount \in Balance : unstake(who, amount)
GetFreeBalance == \E who \in Accounts : free_balance_query(who)
GetStakedBalance == \E who \in Accounts : staked_balance_query(who)

(* ---------------- GovernancePallet ---------------- *)

\* create_proposal calls explored: enough to take the counter past its maximum.
MaxCreate == U32Max + 3

\* struct Proposal
Proposal(description, creator) ==
    [description |-> description, yes_votes |-> 0, no_votes |-> 0,
     status |-> "Active", creator |-> creator]

\* A call of the pallet: its arguments, and what it returned.  `id` is the
\* proposal_id argument, or for create_proposal the id of the new proposal;
\* `status` is the ProposalStatus finalize_proposal returned.
GovCall(op, who, id, vote_type, result, status) ==
    [op |-> op, who |-> who, id |-> id, vote_type |-> vote_type,
     result |-> result, status |-> status]

\* A u32 `+= 1` that did not overflow, or overflowed in a build that wraps.
add_one(n) == (n + 1) % (U32Max + 1)

\* A u32 `+= 1` panics: the value is the maximum and overflow checks are on.
add_one_panics(n) == n = U32Max /\ overflow_checks

\* The process is alive: no earlier call panicked.
Running == gov_call.result # "panic"

GovernanceNew ==
    /\ proposals = EmptyMap
    /\ votes = EmptyMap
    /\ next_proposal_id = 0
    /\ created = 0
    /\ overflow_checks \in BOOLEAN
    /\ gov_call = GovCall("new", 0, 0, FALSE, "Ok", "")

create_proposal(creator, description) ==
    LET proposal_id == next_proposal_id
    IN  /\ Running
        /\ created < MaxCreate
        /\ created' = created + 1
        /\ proposals' = insert(proposals, proposal_id, Proposal(description, creator))
        /\ IF add_one_panics(next_proposal_id)
           THEN /\ gov_call' = GovCall("create_proposal", creator, proposal_id, FALSE, "panic", "")
                /\ UNCHANGED next_proposal_id
           ELSE /\ next_proposal_id' = add_one(next_proposal_id)
                /\ gov_call' = GovCall("create_proposal", creator, proposal_id, FALSE, "Ok", "")
        /\ UNCHANGED <<votes, overflow_checks, staking_vars>>

\* vote without the already-voted rejection (mutant): a repeated vote is tallied.
vote_unchecked(voter, proposal_id, vote_type) ==
    LET vote_key == <<voter, proposal_id>>
        Err(e) == GovCall("vote", voter, proposal_id, vote_type, e, "")
    IN  /\ Running
        /\ IF proposal_id \notin DOMAIN proposals
           THEN /\ gov_call' = Err("Proposal does not exist")
                /\ UNCHANGED <<proposals, votes>>
           ELSE IF proposals[proposal_id].status # "Active"
           THEN /\ gov_call' = Err("Cannot vote on finalized proposal")
                /\ UNCHANGED <<proposals, votes>>
           ELSE /\ votes' = insert(votes, vote_key, vote_type)
                /\ LET tally == IF vote_type THEN "yes_votes" ELSE "no_votes"
                       old == proposals[proposal_id][tally]
                   IN  IF add_one_panics(old)
                       THEN /\ gov_call' = Err("panic")
                            /\ UNCHANGED proposals
                       ELSE /\ proposals' =
                                  [proposals EXCEPT ![proposal_id][tally] = add_one(old)]
                            /\ gov_call' = Err("Ok")
        /\ UNCHANGED <<next_proposal_id, created, overflow_checks, staking_vars>>

\* vote looking for an earlier vote before it looks at the status (mutant).
vote_duplicate_first(voter, proposal_id, vote_type) ==
    LET vote_key == <<voter, proposal_id>>
        Err(e) == GovCall("vote", voter, proposal_id, vote_type, e, "")
    IN  /\ Running
        /\ IF proposal_id \notin DOMAIN proposals
           THEN /\ gov_call' = Err("Proposal does not exist")
                /\ UNCHANGED <<proposals, votes>>
           ELSE IF vote_key \in DOMAIN votes
           THEN /\ votes' = insert(votes, vote_key, vote_type)
                /\ gov_call' = Err("Voter has already voted on this proposal")
                /\ UNCHANGED proposals
           ELSE IF proposals[proposal_id].status # "Active"
           THEN /\ gov_call' = Err("Cannot vote on finalized proposal")
                /\ UNCHANGED <<proposals, votes>>
           ELSE /\ votes' = insert(votes, vote_key, vote_type)
                /\ LET tally == IF vote_type THEN "yes_votes" ELSE "no_votes"
                       old == proposals[proposal_id][tally]
                   IN  IF add_one_panics(old)
                       THEN /\ gov_call' = Err("panic")
                            /\ UNCHANGED proposals
                       ELSE /\ proposals' =
                                  [proposals EXCEPT ![proposal_id][tally] = add_one(old)]
                            /\ gov_call' = Err("Ok")
        /\ UNCHANGED <<next_proposal_id, created, overflow_checks, staking_vars>>

vote(voter, proposal_id, vote_type) ==
    LET vote_key == <<voter, proposal_id>>
        Err(e) == GovCall("vote", voter, proposal_id, vote_type, e, "")
    IN  /\ Running
        /\ IF proposal_id \notin DOMAIN proposals
           THEN /\ gov_call' = Err("Proposal does not exist")
                /\ UNCHANGED <<proposals, votes>>
           ELSE IF proposals[proposal_id].status # "Active"
           THEN /\ gov_call' = Err("Cannot vote on finalized proposal")
                /\ UNCHANGED <<proposals, votes>>
           ELSE /\ votes' = insert(votes, vote_key, vote_type)
                /\ IF vote_key \in DOMAIN votes
                   THEN /\ gov_call' = Err("Voter has already voted on this proposal")
                        /\ UNCHANGED proposals
                   ELSE LET tally == IF vote_type THEN "yes_votes" ELSE "no_votes"
                            old == proposals[proposal_id][tally]
                        IN  IF add_one_panics(old)
                            THEN /\ gov_call' = Err("panic")
                                 /\ UNCHANGED proposals
                            ELSE /\ proposals' =
                                       [proposals EXCEPT ![proposal_id][tally] = add_one(old)]
                                 /\ gov_call' = Err("Ok")
        /\ UNCHANGED <<next_proposal_id, created, overflow_checks, staking_vars>>

\* Some(&proposal) as the record, Option::None as the empty set of records.
get_proposal(proposal_id) ==
    IF proposal_id \in DOMAIN proposals THEN {proposals[proposal_id]} ELSE {}

\* finalize_proposal approving on yes_votes >= no_votes (mutant): a tie is approved.
finalize_proposal_tie_approves(proposal_id) ==
    /\ Running
    /\ IF proposal_id \notin DOMAIN proposals
       THEN /\ gov_call' = GovCall("finalize_proposal", 0, proposal_id, FALSE,
                                   "Proposal does not exist", "")
            /\ UNCHANGED proposals
       ELSE IF proposals[proposal_id].status # "Active"
       THEN /\ gov_call' = GovCall("finalize_proposal", 0, proposal_id, FALSE,
                                   "Cannot vote on finalized proposal", "")
            /\ UNCHANGED proposals
       ELSE LET status == IF proposals[proposal_id].yes_votes >= proposals[proposal_id].no_votes
                          THEN "Approved"
                          ELSE "Rejected"
            IN  /\ proposals' = [proposals EXCEPT ![proposal_id].status = status]
                /\ gov_call' = GovCall("finalize_proposal", 0, proposal_id, FALSE, "Ok",
                                       proposals'[proposal_id].status)
    /\ UNCHANGED <<votes, next_proposal_id, created, overflow_checks, staking_vars>>

\* finalize_proposal closing every Active proposal with the outcome of the one
\* it was called on (mutant).
finalize_proposal_sweeps(proposal_id) ==
    /\ Running
    /\ IF proposal_id \notin DOMAIN proposals
       THEN /\ gov_call' = GovCall("finalize_proposal", 0, proposal_id, FALSE,
                                   "Proposal does not exist", "")
            /\ UNCHANGED proposals
       ELSE IF proposals[proposal_id].status # "Active"
       THEN /\ gov_call' = GovCall("finalize_proposal", 0, proposal_id, FALSE,
                                   "Cannot vote on finalized proposal", "")
            /\ UNCHANGED proposals
       ELSE LET status == IF proposals[proposal_id].yes_votes > proposals[proposal_id].no_votes
                          THEN "Approved"
                          ELSE "Rejected"
            IN  /\ proposals' = [id \in DOMAIN proposals |->
                                   IF proposals[id].status = "Active"
                                   THEN [proposals[id] EXCEPT !.status = status]
                                   ELSE proposals[id]]
                /\ gov_call' = GovCall("finalize_proposal", 0, proposal_id, FALSE, "Ok",
                                       proposals'[proposal_id].status)
    /\ UNCHANGED <<votes, next_proposal_id, created, overflow_checks, staking_vars>>

finalize_proposal(proposal_id) ==
    /\ Running
    /\ IF proposal_id \notin DOMAIN proposals
       THEN /\ gov_call' = GovCall("finalize_proposal", 0, proposal_id, FALSE,
                                   "Proposal does not exist", "")
            /\ UNCHANGED proposals
       ELSE IF proposals[proposal_id].status # "Active"
       THEN /\ gov_call' = GovCall("finalize_proposal", 0, proposal_id, FALSE,
                                   "Cannot vote on finalized proposal", "")
            /\ UNCHANGED proposals
       ELSE LET status == IF proposals[proposal_id].yes_votes > proposals[proposal_id].no_votes
                          THEN "Approved"
                          ELSE "Rejected"
            IN  /\ proposals' = [proposals EXCEPT ![proposal_id].status = status]
                /\ gov_call' = GovCall("finalize_proposal", 0, proposal_id, FALSE, "Ok",
                                       proposals'[proposal_id].status)
    /\ UNCHANGED <<votes, next_proposal_id, created, overflow_checks, staking_vars>>

CreateProposal ==
    \E creator \in Accounts, description \in Descriptions :
        create_proposal(creator, description)
Vote ==
    \E voter \in Accounts, proposal_id \in ProposalIds, vote_type \in BOOLEAN :
        vote(voter, proposal_id, vote_type)
FinalizeProposal == \E proposal_id \in ProposalIds : finalize_proposal(proposal_id)

(* ---------------- specifications ---------------- *)

Init == StakingNew /\ GovernanceNew

StakingNext == SetBalance \/ Stake \/ Unstake \/ GetFreeBalance \/ GetStakedBalance

StakingSpec == Init /\ [][StakingNext]_vars

GovernanceNext == CreateProposal \/ Vote \/ FinalizeProposal

GovernanceSpec == Init /\ [][GovernanceNext]_vars

\* Both pallets in one specification.  They are separate structs sharing no
\* field, so a call of one leaves the other as it is; a behaviour drives the
\* pallet it started with.
PalletNext ==
    \/ (gov_call.op = "new" /\ StakingNext)
    \/ (st_call.op = "new" /\ GovernanceNext)

PalletSpec == Init /\ [][PalletNext]_vars

(* ---------------- properties of StakingPallet ---------------- *)

Total(who) == get_free_balance(who) + get_staked_balance(who)

IsTransfer(call) == call.op \in {"stake", "unstake"}

\* C1 - Conservation: every stake or unstake call, whether it succeeds or fails,
\* leaves free + staked of every account equal to its value before the call;
\* hence so does every sequence of such calls with no set_balance in between.
C1_Conservation ==
    [][IsTransfer(st_call') => \A a \in Accounts : Total(a)' = Total(a)]_vars

\* A successful stake that moved a positive amount onto an existing stake.
C1_Witness ==
    /\ st_call.op = "stake" /\ st_call.result = "Ok" /\ st_call.amount > 0
    /\ get_staked_balance(st_call.who) > st_call.amount

\* C2 - No negative pools: a stake of more than the free balance returns
\* "Insufficient balance", an unstake of more than the staked balance returns
\* "Insufficient staked balance", and every stored balance is >= 0.
C2_NoNegativePools ==
    /\ [](\A a \in DOMAIN free_balances : free_balances[a] >= 0)
    /\ [](\A a \in DOMAIN staked_balances : staked_balances[a] >= 0)
    /\ [][IF st_call'.op = "stake" /\ st_call'.amount > get_free_balance(st_call'.who)
           THEN st_call'.result = "Insufficient balance"
           ELSE IF st_call'.op = "unstake"
                   /\ st_call'.amount > get_staked_balance(st_call'.who)
           THEN st_call'.result = "Insufficient staked balance"
           ELSE TRUE]_vars

\* A stake was refused for insufficient free balance while a stake is held.
C2_Witness ==
    /\ st_call.op = "stake" /\ st_call.result = "Insufficient balance"
    /\ st_call.amount > get_free_balance(st_call.who)
    /\ get_staked_balance(st_call.who) > 0

\* C3 - A failed stake or unstake leaves both maps exactly as they were:
\* neither pool of any account is written.
C3_FailureLeavesBalances ==
    [][(IsTransfer(st_call') /\ st_call'.result # "Ok")
          => (free_balances' = free_balances /\ staked_balances' = staked_balances)]_vars

\* A stake passed the subtraction and failed at the addition.
C3_Witness ==
    /\ st_call.op = "stake" /\ st_call.result = "Overflow"
    /\ st_call.amount <= get_free_balance(st_call.who)

\* C10 - A successful stake(who, amount) stores free - amount and staked + amount
\* for who, a successful unstake(who, amount) stores staked - amount and
\* free + amount, an absent entry counting as zero.
C10_TransferEffect ==
    [][LET who == st_call'.who
           amount == st_call'.amount
       IN  IF st_call'.op = "stake" /\ st_call'.result = "Ok"
           THEN /\ who \in DOMAIN free_balances' /\ who \in DOMAIN staked_balances'
                /\ free_balances'[who] = get_free_balance(who) - amount
                /\ staked_balances'[who] = get_staked_balance(who) + amount
           ELSE IF st_call'.op = "unstake" /\ st_call'.result = "Ok"
           THEN /\ who \in DOMAIN free_balances' /\ who \in DOMAIN staked_balances'
                /\ staked_balances'[who] = get_staked_balance(who) - amount
                /\ free_balances'[who] = get_free_balance(who) + amount
           ELSE TRUE]_vars

\* A successful unstake of a positive amount that left part of the stake.
C10_Witness ==
    /\ st_call.op = "unstake" /\ st_call.result = "Ok" /\ st_call.amount > 0
    /\ get_staked_balance(st_call.who) > 0 /\ get_free_balance(st_call.who) > st_call.amount

\* The entry of account a, present or absent, is the same in map m1 and map m2.
SameEntry(m1, m2, a) ==
    /\ (a \in DOMAIN m1) <=> (a \in DOMAIN m2)
    /\ a \in DOMAIN m1 => m1[a] = m2[a]

\* C11 - Overflow reporting: a stake returns "Insufficient balance" when amount
\* exceeds the free balance, otherwise "Overflow" exactly when staked + amount
\* exceeds BalanceMax, otherwise Ok; an unstake likewise with the pools
\* exchanged; and every stored balance lies in 0..BalanceMax (none wrapped).
C11_OverflowReporting ==
    /\ [](\A a \in DOMAIN free_balances : free_balances[a] \in Balance)
    /\ [](\A a \in DOMAIN staked_balances : staked_balances[a] \in Balance)
    /\ [][LET who == st_call'.who
              amount == st_call'.amount
          IN  IF st_call'.op = "stake"
              THEN st_call'.result =
                     IF amount > get_free_balance(who) THEN "Insufficient balance"
                     ELSE IF get_staked_balance(who) + amount > BalanceMax THEN "Overflow"
                     ELSE "Ok"
              ELSE IF st_call'.op = "unstake"
              THEN st_call'.result =
                     IF amount > get_staked_balance(who) THEN "Insufficient staked balance"
                     ELSE IF get_free_balance(who) + amount > BalanceMax THEN "Overflow"
                     ELSE "Ok"
              ELSE TRUE]_vars

\* An unstake that the staked balance covers was refused with Overflow.
C11_Witness ==
    /\ st_call.op = "unstake" /\ st_call.result = "Overflow"
    /\ st_call.amount <= st_call.staked_before
    /\ st_call.free_before + st_call.amount > BalanceMax

\* C12 - set_balance(who, amount) returns normally, stores amount as the free
\* balance of who, and leaves the staked map and the free entries of all other
\* accounts as they were.
C12_SetBalanceFrame ==
    [][st_call'.op = "set_balance"
          => /\ st_call'.result = "Ok"
             /\ st_call'.who \in DOMAIN free_balances'
             /\ free_balances'[st_call'.who] = st_call'.amount
             /\ staked_balances' = staked_balances
             /\ \A a \in Accounts \ {st_call'.who} :
                    SameEntry(free_balances, free_balances', a)]_vars

\* set_balance replaced a different free balance of an account that holds a stake.
C12_Witness ==
    /\ st_call.op = "set_balance"
    /\ st_call.free_before # st_call.amount /\ st_call.free_before > 0
    /\ get_staked_balance(st_call.who) > 0

\* The balance an account holds in map m: what is stored, zero when nothing is.
StoredOrZero(m, a) == IF a \in DOMAIN m THEN m[a] ELSE 0

IsQuery(call) == call.op \in {"get_free_balance", "get_staked_balance"}

\* C13 - The balance queries return normally and change no balance; for an
\* account with no entry in the map they return zero; and the staked balance of
\* an account leaves zero only by a successful stake of that account.
C13_QueriesDefaultZero ==
    [][/\ IsQuery(st_call')
          => /\ st_call'.result = "Ok"
             /\ free_balances' = free_balances /\ staked_balances' = staked_balances
       /\ (st_call'.op = "get_free_balance" /\ st_call'.who \notin DOMAIN free_balances)
          => st_call'.value = 0
       /\ (st_call'.op = "get_staked_balance" /\ st_call'.who \notin DOMAIN staked_balances)
          => st_call'.value = 0
       /\ \A a \in Accounts :
             (StoredOrZero(staked_balances, a) = 0 /\ StoredOrZero(staked_balances', a) # 0)
             => (st_call'.op = "stake" /\ st_call'.result = "Ok" /\ st_call'.who = a)]_vars

\* The staked balance of an account that has a free balance but never staked
\* was queried.
C13_Witness ==
    /\ st_call.op = "get_staked_balance"
    /\ st_call.who \notin DOMAIN staked_balances
    /\ get_free_balance(st_call.who) > 0

\* C18 - Round trip: an unstake(who, amount) made right after a successful
\* stake(who, amount) succeeds and leaves who with the free and staked balance
\* it had before the stake; and so does a stake right after a successful unstake.
C18_RoundTrip ==
    [][st_call'.undoes
          => /\ st_call'.result = "Ok"
             /\ StoredOrZero(free_balances', st_call'.who) = st_call.free_before
             /\ StoredOrZero(staked_balances', st_call'.who) = st_call.staked_before]_vars

\* An unstake of a positive amount undid the stake made just before it.
C18_Witness ==
    /\ st_call.undoes /\ st_call.op = "unstake" /\ st_call.amount > 0
    /\ st_call.result = "Ok"

(* ---------------- properties of GovernancePallet ---------------- *)

Tallies(p) == <<p.yes_votes, p.no_votes>>

IsActive(id) == id \in DOMAIN proposals /\ proposals[id].status = "Active"

VoteKey(call) == <<call.who, call.id>>

\* C4 - Vote uniqueness: a vote succeeds only for a (voter, proposal) pair that
\* has no vote record and it creates the record; records are never removed; so
\* at most one vote of a pair ever succeeds.  A vote of a pair that has a record,
\* on a still Active proposal, returns "Voter has already voted on this
\* proposal" and leaves both tallies of the proposal as they were, whatever
\* choice it carries.
C4_VoteUniqueness ==
    [][/\ DOMAIN votes \subseteq DOMAIN votes'
       /\ IF gov_call'.op = "vote" /\ gov_call'.result = "Ok"
          THEN VoteKey(gov_call') \notin DOMAIN votes /\ VoteKey(gov_call') \in DOMAIN votes'
          ELSE TRUE
       /\ IF gov_call'.op = "vote" /\ VoteKey(gov_call') \in DOMAIN votes
             /\ IsActive(gov_call'.id)
          THEN /\ gov_call'.result = "Voter has already voted on this proposal"
               /\ Tallies(proposals'[gov_call'.id]) = Tallies(proposals[gov_call'.id])
          ELSE TRUE]_vars

\* A repeated vote with the opposite choice was rejected on a proposal whose
\* tallies hold the first vote only.
C4_Witness ==
    /\ gov_call.op = "vote"
    /\ gov_call.result = "Voter has already voted on this proposal"
    /\ gov_call.vote_type = FALSE
    /\ Tallies(proposals[gov_call.id]) = <<1, 0>>

VoteErrors ==
    {"Proposal does not exist", "Cannot vote on finalized proposal",
     "Voter has already voted on this proposal"}

\* C5 - A vote that returns an error leaves every proposal and every vote
\* record as it was; the stored choice of a pair stays that of its first vote.
C5_FailedVoteLeavesState ==
    [][(gov_call'.op = "vote" /\ gov_call'.result \in VoteErrors)
          => (proposals' = proposals /\ votes' = votes)]_vars

\* C6 - Terminal outcomes: a proposal whose status is Approved or Rejected keeps
\* its status and tallies in every later step, and every vote or
\* finalize_proposal on it returns "Cannot vote on finalized proposal".
C6_TerminalOutcomes ==
    [][\A id \in DOMAIN proposals :
          proposals[id].status # "Active"
          => /\ id \in DOMAIN proposals'
             /\ proposals'[id].status = proposals[id].status
             /\ Tallies(proposals'[id]) = Tallies(proposals[id])
             /\ (gov_call'.op \in {"vote", "finalize_proposal"} /\ gov_call'.id = id)
                   => gov_call'.result = "Cannot vote on finalized proposal"]_vars

\* C7 - Deterministic outcome: finalize_proposal on an Active proposal returns
\* Ok, stores Approved when yes_votes > no_votes and Rejected otherwise, and
\* returns the status it stored.
C7_DeterministicOutcome ==
    [][(gov_call'.op = "finalize_proposal" /\ IsActive(gov_call'.id))
          => LET old == proposals[gov_call'.id]
                 new == proposals'[gov_call'.id]
             IN  /\ gov_call'.result = "Ok"
                 /\ new.status = IF old.yes_votes > old.no_votes
                                  THEN "Approved" ELSE "Rejected"
                 /\ (new.status = "Approved") <=> (old.yes_votes > old.no_votes)
                 /\ gov_call'.status = new.status]_vars

\* A proposal with one yes and one no vote was finalized as Rejected.
C7_Witness ==
    /\ gov_call.op = "finalize_proposal" /\ gov_call.result = "Ok"
    /\ gov_call.status = "Rejected"
    /\ Tallies(proposals[gov_call.id]) = <<1, 1>>

\* C8 - Sequential id assignment: the n-th create_proposal call (n from 0)
\* returns id n, and the record stored under it is Active with zero tallies.
C8_SequentialIds ==
    gov_call.op = "create_proposal"
    => /\ gov_call.result = "Ok"
       /\ gov_call.id = created - 1
       /\ gov_call.id \in DOMAIN proposals
       /\ proposals[gov_call.id].status = "Active"
       /\ Tallies(proposals[gov_call.id]) = <<0, 0>>

\* C9 - create_proposal always returns normally, with an id under which no
\* proposal is stored yet (no earlier call returned it, no record is overwritten).
C9_CreateNeverReuses ==
    [][(created' = created + 1)
          => /\ gov_call'.result = "Ok"
             /\ gov_call'.id \notin DOMAIN proposals]_vars

\* C14 - The status of a stored proposal changes only from Active to Approved or
\* Rejected, and only in a successful finalize_proposal on it; no step changes
\* the creator or description of a stored proposal or removes it.
C14_OnlyFinalizeChangesStatus ==
    [][\A id \in DOMAIN proposals :
          /\ id \in DOMAIN proposals'
          /\ proposals'[id].creator = proposals[id].creator
          /\ proposals'[id].description = proposals[id].description
          /\ proposals'[id].status # proposals[id].status
             => /\ proposals[id].status = "Active"
                /\ proposals'[id].status \in {"Approved", "Rejected"}
                /\ gov_call'.op = "finalize_proposal"
                /\ gov_call'.result = "Ok"
                /\ gov_call'.id = id]_vars

\* C15 - A successful vote(voter, proposal_id, choice) stores choice under
\* (voter, proposal_id) and adds exactly 1 to yes_votes when choice is yes, to
\* no_votes when it is no, leaving the other tally as it was.
C15_VoteEffect ==
    [][(gov_call'.op = "vote" /\ gov_call'.result = "Ok")
          => LET old == proposals[gov_call'.id]
                 new == proposals'[gov_call'.id]
             IN  /\ VoteKey(gov_call') \in DOMAIN votes'
                 /\ votes'[VoteKey(gov_call')] = gov_call'.vote_type
                 /\ Tallies(new) = IF gov_call'.vote_type
                                   THEN <<old.yes_votes + 1, old.no_votes>>
                                   ELSE <<old.yes_votes, old.no_votes + 1>>]_vars

\* C16 - vote checks in the order unknown id, finalized, already voted: an
\* unknown id gives "Proposal does not exist"; a stored proposal that is not
\* Active gives "Cannot vote on finalized proposal", also for a voter with a
\* vote record on it; "Voter has already voted on this proposal" is returned
\* only for a stored, Active proposal on which the voter has a record.
C16_VoteErrorOrder ==
    [][gov_call'.op = "vote"
          => IF gov_call'.id \notin DOMAIN proposals
             THEN gov_call'.result = "Proposal does not exist"
             ELSE IF proposals[gov_call'.id].status # "Active"
             THEN gov_call'.result = "Cannot vote on finalized proposal"
             ELSE (gov_call'.result = "Voter has already voted on this proposal")
                     <=> (VoteKey(gov_call') \in DOMAIN votes)]_vars

\* A voter with a vote record on a finalized proposal voted on it again.
C16_Witness ==
    /\ gov_call.op = "vote"
    /\ gov_call.result = "Cannot vote on finalized proposal"
    /\ VoteKey(gov_call) \in DOMAIN votes

\* The number of vote records on proposal id whose stored choice is choice.
Records(id, choice) ==
    Cardinality({k \in DOMAIN votes : k[2] = id /\ votes[k] = choice})

\* C17 - Tally/record consistency: while the pallet is in use, yes_votes and
\* no_votes of every stored proposal equal the numbers of vote records on it
\* with choice yes and no, and every vote record is on a stored proposal.
C17_TalliesMatchRecords ==
    Running
    => /\ \A id \in DOMAIN proposals :
             /\ proposals[id].yes_votes = Records(id, TRUE)
             /\ proposals[id].no_votes = Records(id, FALSE)
       /\ \A k \in DOMAIN votes : k[2] \in DOMAIN proposals

\* C19 - Isolation: a stake or unstake of one account leaves the free and the
\* staked entry of every other account as it was; a vote or finalize_proposal
\* on one proposal leaves every other stored proposal, and every vote record
\* of another proposal, as it was, and creates no record on another proposal.
C19_Isolation ==
    [][/\ IsTransfer(st_call')
          => \A a \in Accounts \ {st_call'.who} :
                /\ SameEntry(free_balances, free_balances', a)
                /\ SameEntry(staked_balances, staked_balances', a)
       /\ gov_call'.op \in {"vote", "finalize_proposal"}
          => /\ \A id \in DOMAIN proposals \ {gov_call'.id} :
                   id \in DOMAIN proposals' /\ proposals'[id] = proposals[id]
             /\ \A k \in (DOMAIN votes \cup DOMAIN votes') :
                   k[2] # gov_call'.id => SameEntry(votes, votes', k)]_vars

\* A proposal was finalized while another proposal with a vote was Active.
C19_Witness ==
    /\ gov_call.op = "finalize_proposal" /\ gov_call.result = "Ok"
    /\ \E id \in DOMAIN proposals \ {gov_call.id} :
          /\ proposals[id].status = "Active"
          /\ Tallies(proposals[id]) # <<0, 0>>

====
